---- MODULE Spec2Model ----
(***************************************************************************)
(* PersonaApp (persona-frontend/src/PersonaApp.tsx): the form component    *)
(* that creates a persona from a name and a writing sample and refines it  *)
(* with further samples, as a state machine over the component's useState  *)
(* cells and the HTTP requests it has in flight.                           *)
(***************************************************************************)
EXTENDS Integers, Sequences, FiniteSets, TLC

\* ------------------------------------------------------------------ bounds
\* ids the service may answer with are 0..MaxId
MaxId == 2
\* opaque persona payloads the service may answer with are 1..MaxPayload
MaxPayload == 2
\* requests the model lets be pending at once (the code has no such limit)
MaxInFlight == 2

\* --------------------------------------------------------- JavaScript values
Null == [t |-> "null"]
Undefined == [t |-> "undefined"]
Num(n) == [t |-> "number", v |-> n]
\* a response body { id, persona }; id is Undefined when the field is missing
Obj(i, p) == [t |-> "object", id |-> i, persona |-> p]

\* JavaScript truthiness, as `!personaId` and `persona &&` evaluate it
Truthy(x) ==
    CASE x.t = "null" -> FALSE
      [] x.t = "undefined" -> FALSE
      [] x.t = "number" -> x.v # 0
      [] OTHER -> TRUE

\* a string holding an unpaired surrogate code unit
LoneSurrogate == "<U+D800>"
\* what the user can have typed into an input or textarea
Texts == {"", "a", "a b", LoneSurrogate}

\* encodeURIComponent: throws URIError on an unpaired surrogate, escapes
\* the space, leaves unreserved characters alone
EncodeURIComponent(s) ==
    CASE s = LoneSurrogate -> [threw |-> TRUE, value |-> ""]
      [] s = "a b" -> [threw |-> FALSE, value |-> "a%20b"]
      [] OTHER -> [threw |-> FALSE, value |-> s]

Ids == {Undefined} \cup {Num(n) : n \in 0..MaxId}
\* response.data of a 2xx answer: JSON null, or an object
Bodies == {Null} \cup {Obj(i, p) : i \in Ids, p \in 1..MaxPayload}

\* ------------------------------------------------------------------- state
VARIABLES
    name,       \* useState('')
    sample,     \* useState('')
    persona,    \* useState<PersonaResponse | null>(null)
    loading,    \* useState(false)
    personaId,  \* useState<number | null>(null)
    newSample,  \* useState('')
    pending,    \* the api.post promises not yet settled, oldest first
    last,       \* what the last handler step did: its alert and response
    created     \* <<id>> stored by the latest setPersonaId, <<>> before any

vars == <<name, sample, persona, loading, personaId, newSample, pending, last, created>>

Event(op, kind, alert, data) == [op |-> op, kind |-> kind, alert |-> alert, data |-> data]

Init ==
    /\ name = ""
    /\ sample = ""
    /\ persona = Null
    /\ loading = FALSE
    /\ personaId = Null
    /\ newSample = ""
    /\ pending = <<>>
    /\ last = Event("init", "", "", Null)
    /\ created = <<>>

\* ------------------------------------------------------------------ render
\* disabled={loading || !name || !sample}
GenerateDisabled_noLoading == name = "" \/ sample = ""
GenerateDisabled_noSample == loading \/ name = ""
GenerateDisabled == loading \/ name = "" \/ sample = ""

\* {persona && ( ... )}
RefinementShown_always == TRUE
RefinementShown == Truthy(persona)

\* disabled={loading || !newSample}
AddDisabled == loading \/ newSample = ""

\* ------------------------------------------------------------------ inputs
SetName(v) ==
    /\ v # name
    /\ name' = v
    /\ last' = Event("edit", "", "", Null)
    /\ UNCHANGED <<sample, persona, loading, personaId, newSample, pending, created>>

SetSample(v) ==
    /\ v # sample
    /\ sample' = v
    /\ last' = Event("edit", "", "", Null)
    /\ UNCHANGED <<name, persona, loading, personaId, newSample, pending, created>>

SetNewSample(v) ==
    /\ RefinementShown
    /\ v # newSample
    /\ newSample' = v
    /\ last' = Event("edit", "", "", Null)
    /\ UNCHANGED <<name, sample, persona, loading, personaId, pending, created>>

\* ---------------------------------------------------------------- requests
CreateRequest(query, text) == [kind |-> "create", name |-> query, id |-> Null, text |-> text]
AddRequest_recordId(id, text) == [kind |-> "add_sample", name |-> "", id |-> persona.id, text |-> text]
AddRequest(id, text) == [kind |-> "add_sample", name |-> "", id |-> id, text |-> text]

Remove(s, i) == [j \in 1..(Len(s) - 1) |-> IF j < i THEN s[j] ELSE s[j + 1]]

\* generatePersona up to its await: setLoading(true), then the request is
\* built and posted; a URIError from encodeURIComponent goes to catch and
\* finally before anything is sent
generatePersona ==
    LET q == EncodeURIComponent(name) IN
    IF q.threw
    THEN /\ loading' = FALSE
         /\ last' = Event("call", "create", "Error creating persona", Null)
         /\ UNCHANGED <<name, sample, persona, personaId, newSample, pending, created>>
    ELSE /\ loading' = TRUE
         /\ pending' = Append(pending, CreateRequest(q.value, sample))
         /\ last' = Event("dispatch", "create", "", Null)
         /\ UNCHANGED <<name, sample, persona, personaId, newSample, created>>

\* a click on the Generate Persona button
ClickGenerate ==
    /\ ~GenerateDisabled
    /\ Len(pending) < MaxInFlight
    /\ generatePersona

\* addToPersona up to its await
addToPersona_noGuard ==
    /\ loading' = TRUE
    /\ pending' = Append(pending, AddRequest(personaId, newSample))
    /\ last' = Event("dispatch", "add_sample", "", Null)
    /\ UNCHANGED <<name, sample, persona, personaId, newSample, created>>

addToPersona ==
    IF ~Truthy(personaId)
    THEN /\ last' = Event("return", "add_sample", "", Null)
         /\ UNCHANGED <<name, sample, persona, loading, personaId, newSample, pending, created>>
    ELSE /\ loading' = TRUE
         /\ pending' = Append(pending, AddRequest(personaId, newSample))
         /\ last' = Event("dispatch", "add_sample", "", Null)
         /\ UNCHANGED <<name, sample, persona, personaId, newSample, created>>

\* a click on the Add Sample to Persona button
ClickAdd ==
    /\ RefinementShown
    /\ ~AddDisabled
    /\ Len(pending) < MaxInFlight
    /\ addToPersona

\* --------------------------------------------------------------- responses
\* generatePersona after its await resolved with response.data = data:
\* setPersona(response.data); setPersonaId(response.data.id); reading .id
\* of null throws TypeError, which goes to catch with setPersona(null)
\* already made; finally setLoading(false)
CreateResolved_noSetPersonaId(i, data) ==
    /\ pending[i].kind = "create"
    /\ pending' = Remove(pending, i)
    /\ persona' = data
    /\ personaId' = personaId
    /\ created' = created
    /\ last' = Event("resolved", "create",
                     IF data = Null THEN "Error creating persona" ELSE "", data)
    /\ loading' = FALSE
    /\ UNCHANGED <<name, sample, newSample>>

CreateResolved(i, data) ==
    /\ pending[i].kind = "create"
    /\ pending' = Remove(pending, i)
    /\ persona' = data
    /\ IF data = Null
       THEN /\ UNCHANGED <<personaId, created>>
            /\ last' = Event("resolved", "create", "Error creating persona", data)
       ELSE /\ personaId' = data.id
            /\ created' = <<data.id>>
            /\ last' = Event("resolved", "create", "", data)
    /\ loading' = FALSE
    /\ UNCHANGED <<name, sample, newSample>>

\* generatePersona after its await rejected (network error or non-2xx):
\* alert('Error creating persona'); finally setLoading(false)
CreateRejected_keepsLoading(i) ==
    /\ pending[i].kind = "create"
    /\ pending' = Remove(pending, i)
    /\ last' = Event("rejected", "create", "Error creating persona", Null)
    /\ UNCHANGED <<name, sample, persona, loading, personaId, newSample, created>>

CreateRejected(i) ==
    /\ pending[i].kind = "create"
    /\ pending' = Remove(pending, i)
    /\ last' = Event("rejected", "create", "Error creating persona", Null)
    /\ loading' = FALSE
    /\ UNCHANGED <<name, sample, persona, personaId, newSample, created>>

\* addToPersona after its await resolved: setPersona(response.data);
\* setNewSample(''); finally setLoading(false)
AddResolved_keepsNewSample(i, data) ==
    /\ pending[i].kind = "add_sample"
    /\ pending' = Remove(pending, i)
    /\ persona' = data
    /\ last' = Event("resolved", "add_sample", "", data)
    /\ loading' = FALSE
    /\ UNCHANGED <<name, sample, personaId, newSample, created>>

AddResolved_clearsSample(i, data) ==
    /\ pending[i].kind = "add_sample"
    /\ pending' = Remove(pending, i)
    /\ persona' = data
    /\ sample' = ""
    /\ last' = Event("resolved", "add_sample", "", data)
    /\ loading' = FALSE
    /\ UNCHANGED <<name, personaId, newSample, created>>

AddResolved(i, data) ==
    /\ pending[i].kind = "add_sample"
    /\ pending' = Remove(pending, i)
    /\ persona' = data
    /\ newSample' = ""
    /\ last' = Event("resolved", "add_sample", "", data)
    /\ loading' = FALSE
    /\ UNCHANGED <<name, sample, personaId, created>>

\* addToPersona after its await rejected: alert('Error updating persona');
\* finally setLoading(false)
AddRejected_clearsNewSample(i) ==
    /\ pending[i].kind = "add_sample"
    /\ pending' = Remove(pending, i)
    /\ newSample' = ""
    /\ last' = Event("rejected", "add_sample", "Error updating persona", Null)
    /\ loading' = FALSE
    /\ UNCHANGED <<name, sample, persona, personaId, created>>

AddRejected(i) ==
    /\ pending[i].kind = "add_sample"
    /\ pending' = Remove(pending, i)
    /\ last' = Event("rejected", "add_sample", "Error updating persona", Null)
    /\ loading' = FALSE
    /\ UNCHANGED <<name, sample, persona, personaId, newSample, created>>

Next ==
    \/ \E v \in Texts : SetName(v)
    \/ \E v \in Texts : SetSample(v)
    \/ \E v \in Texts : SetNewSample(v)
    \/ ClickGenerate
    \/ ClickAdd
    \/ \E i \in 1..Len(pending), data \in Bodies : CreateResolved(i, data)
    \/ \E i \in 1..Len(pending) : CreateRejected(i)
    \/ \E i \in 1..Len(pending), data \in Bodies : AddResolved(i, data)
    \/ \E i \in 1..Len(pending) : AddRejected(i)

Spec == Init /\ [][Next]_vars

\* the continuation of an awaited api.post: some pending request resolves
\* or rejects and its handler runs to the end of finally
Settle ==
    \/ \E i \in 1..Len(pending), data \in Bodies : CreateResolved(i, data)
    \/ \E i \in 1..Len(pending) : CreateRejected(i)
    \/ \E i \in 1..Len(pending), data \in Bodies : AddResolved(i, data)
    \/ \E i \in 1..Len(pending) : AddRejected(i)

\* the behaviours in which every dispatched request eventually resolves or
\* rejects; the event loop then runs the handler's continuation
LiveSpec == Init /\ [][Next]_vars /\ WF_vars(Settle)

\* ------------------------------------------------------------------ claims
CreateSucceeded == last.op = "resolved" /\ last.kind = "create" /\ last.alert = ""
RefineSucceeded == last.op = "resolved" /\ last.kind = "add_sample"
RefineFailed == last.op = "rejected" /\ last.kind = "add_sample"
Unset(id) == id \in {Null, Undefined}

\* C1: when a create request succeeds (its handler ends without the error
\* notification), persona is the response body and personaId is the body's
\* id field. Every create request sent carries a non-empty name and sample.
C1_CreateSuccessStoresResponse ==
    CreateSucceeded => (persona = last.data /\ personaId = last.data.id)

C1_Witness ==
    /\ CreateSucceeded
    /\ persona = last.data
    /\ personaId = Num(1)

\* C2: every step of generatePersona that ends in the 'Error creating
\* persona' notification leaves persona and personaId as they were.
C2_FailedCreateLeavesState ==
    [][last'.alert = "Error creating persona"
         => (persona' = persona /\ personaId' = personaId)]_vars

\* C3: addToPersona called with personaId unset issues no request and
\* leaves name, sample, newSample, persona, personaId and loading alone.
C3_AddIsNoOpWithoutId ==
    [][(last'.kind = "add_sample" /\ last'.op \in {"return", "dispatch"} /\ Unset(personaId))
         => (pending' = pending
             /\ UNCHANGED <<name, sample, newSample, persona, personaId, loading>>)]_vars

C3_Witness ==
    /\ last.op = "return"
    /\ Unset(personaId)
    /\ Truthy(persona)
    /\ newSample # ""
    /\ pending = <<>>
    /\ ~loading

\* C4: when a refinement request succeeds, persona is the response body and
\* newSample is the empty string.
C4_RefineSuccessReplacesAndClears ==
    RefineSucceeded => (persona = last.data /\ newSample = "")

C4_Witness ==
    /\ RefineSucceeded
    /\ Truthy(last.data)
    /\ persona = last.data
    /\ persona.id # personaId
    /\ newSample = ""

\* C5: when a refinement request fails, persona, personaId and newSample
\* are what they were before the failure was handled.
C5_RefineFailureKeepsState ==
    [][RefineFailed'
         => (persona' = persona /\ personaId' = personaId /\ newSample' = newSample)]_vars

C5_Witness ==
    /\ RefineFailed
    /\ last.alert = "Error updating persona"
    /\ Truthy(persona)
    /\ newSample # ""

\* C6: loading is true exactly when a request has been dispatched and has
\* not yet resolved or rejected.
C6_LoadingIffInFlight == loading <=> pending # <<>>

C6_Witness == loading /\ Len(pending) = 1 /\ last.op = "edit"

\* C7: at most one request is in flight at any time.
C7_AtMostOneInFlight == Len(pending) <= 1

C7_Witness ==
    /\ Len(pending) = 1
    /\ name = "a"
    /\ sample # ""
    /\ Truthy(persona)
    /\ Truthy(personaId)
    /\ newSample # ""

\* The controller state of section 4.1: Generating and Refining while a
\* request of that kind is in flight, otherwise Ready or Empty according to
\* whether a record is present.
ControllerState ==
    IF pending # <<>>
    THEN IF pending[Len(pending)].kind = "create" THEN "Generating" ELSE "Refining"
    ELSE IF Truthy(persona) THEN "Ready" ELSE "Empty"

ByGenerate == last'.op = "dispatch" /\ last'.kind = "create"
ByAdd == last'.op = "dispatch" /\ last'.kind = "add_sample"
OnSuccess == last'.op = "resolved" /\ last'.alert = ""
OnFailure == last'.op \in {"resolved", "rejected"} /\ last'.alert # ""
Goes(from, to) == ControllerState = from /\ ControllerState' = to

ListedTransition ==
    \/ Goes("Empty", "Generating") /\ ByGenerate
    \/ Goes("Generating", "Ready") /\ OnSuccess
    \/ Goes("Generating", "Empty") /\ OnFailure
    \/ Goes("Ready", "Refining") /\ ByAdd
    \/ Goes("Refining", "Ready") /\ OnSuccess
    \/ Goes("Refining", "Ready") /\ OnFailure /\ persona' = persona

C9_RefineAddressesCreatedId ==
    [][(Len(pending') = Len(pending) + 1 /\ pending'[Len(pending')].kind = "add_sample")
         => /\ created # <<>>
            /\ pending'[Len(pending')].id = created[1]
            /\ Truthy(persona)]_vars

C9_Witness ==
    /\ Len(pending) = 1
    /\ pending[1].kind = "add_sample"
    /\ created = <<pending[1].id>>
    /\ persona.id # pending[1].id

\* C10: each button is disabled exactly when loading is true or its
\* required input is empty, so that no create request carries an empty name
\* or sample and no refinement request carries an empty text.
C10_NoEmptyInputDispatched ==
    /\ GenerateDisabled <=> (loading \/ name = "" \/ sample = "")
    /\ AddDisabled <=> (loading \/ newSample = "")
    /\ \A i \in 1..Len(pending) :
          /\ pending[i].text # ""
          /\ pending[i].kind = "create" => pending[i].name # ""

C10_Witness ==
    /\ Len(pending) = 1
    /\ pending[1].kind = "create"
    /\ pending[1].name = "a%20b"
    /\ name = ""
    /\ GenerateDisabled

\* C11: under the assumption that every dispatched request eventually
\* resolves or rejects, whenever a request is in flight loading eventually
\* becomes false again, whichever way the request ended, and each button is
\* then enabled if its input is non-empty.
C11_LoadingEventuallyCleared ==
    (pending # <<>>) ~>
        (/\ ~loading
         /\ last.op \in {"resolved", "rejected"}
         /\ (name # "" /\ sample # "") => ~GenerateDisabled
         /\ newSample # "" => ~AddDisabled)

C11_Witness ==
    /\ last.op = "rejected"
    /\ ~loading
    /\ pending = <<>>
    /\ ~GenerateDisabled
    /\ RefinementShown
    /\ ~AddDisabled

\* C12: name and sample change only by a keystroke: no click and no
\* response, successful or failed, modifies them.
C12_DraftChangedOnlyByEdits ==
    [][last'.op # "edit" => UNCHANGED <<name, sample>>]_vars

C12_Witness ==
    /\ RefineSucceeded
    /\ name = "a b"
    /\ sample = "a"
    /\ newSample = ""

\* C13: whenever a record is present and no request is in flight,
\* personaId equals the record's id.
C13_IdMatchesRecord ==
    (Truthy(persona) /\ pending = <<>>) => personaId = persona.id

\* C14: a click on the shown and enabled refinement button dispatches a
\* refinement request, for every numeric id a create response stored.
C14_EnabledClickDispatches ==
    [][(last'.kind = "add_sample" /\ last'.op \in {"return", "dispatch"}
        /\ personaId.t = "number")
         => (/\ Len(pending') = Len(pending) + 1
             /\ pending'[Len(pending')].kind = "add_sample")]_vars

\* C15: when a successful refinement clears a non-empty newSample, the
\* text it held just before is the text sent in that request's body.
C15_ClearedTextWasSent ==
    [][\A i \in 1..Len(pending) :
          (/\ pending[i].kind = "add_sample"
           /\ pending' = Remove(pending, i)
           /\ RefineSucceeded'
           /\ newSample # "")
            => newSample = pending[i].text]_vars

\* C16: once a record is present it is never absent again.
C16_RecordNeverLost ==
    [][Truthy(persona) => Truthy(persona')]_vars
====
